---------------------------- MODULE Spec2Model ----------------------------
(***************************************************************************)
(* Model of the transcoder's quality search (findBestQuality), the encoder *)
(* wrapper (Handbrake.runCommand / Handbrake.sample) and the batch         *)
(* orchestrator (transcodeVideos).                                         *)
(*                                                                         *)
(* Units.  Quality values are kept in tenths (7 is 70, 23.5 is 235): the   *)
(* code rounds mid to one decimal and only adds or subtracts 1.  Bitrates  *)
(* are kept in hundredths of Mb/s (round() keeps two decimals), sizes in   *)
(* MB.  "x > y * 0.95" is compared as 100 * x > 95 * y.                    *)
(***************************************************************************)
EXTENDS Integers, Sequences, FiniteSets, TLC

(***************************************************************************)
(* Program constants                                                       *)
(***************************************************************************)
DEFAULT_Q == 250

MaxAttempts == 6

MinGap == 3

BITRATE_RANGES ==
  [Anime |-> <<100, 250>>, Shows |-> <<200, 400>>, Movies |-> <<300, 600>>]

Variants == {"part_012", "part_011"}

InitialLow(v) == IF v = "part_012" THEN 70 ELSE 100

InitialHigh(v) == IF v = "part_012" THEN 400 ELSE 260

(***************************************************************************)
(* Inputs of the search: the media categories, the probed source metadata  *)
(* and what one call of handbrake.sample() may hand back.                  *)
(***************************************************************************)
Categories == {"anime", "shows", "movies"}

SourceMetadata == {[size |-> 1000, bitrate |-> 667], [size |-> 2000, bitrate |-> 450]}

\* SampleResults of handbrake.sample(): estimatedSize (MB), avgBitrate.
SampleResults ==
  {[estimatedSize |-> 525, avgBitrate |-> 150],
   [estimatedSize |-> 525, avgBitrate |-> 350],
   [estimatedSize |-> 525, avgBitrate |-> 500],
   [estimatedSize |-> 525, avgBitrate |-> 650],
   [estimatedSize |-> 960, avgBitrate |-> 150],
   [estimatedSize |-> 960, avgBitrate |-> 350]}

VARIABLES
  variant,      \* which findBestQuality is running
  category,     \* mediaCategory argument
  metadata,     \* video.getDetails() of the source
  spc,          \* position in findBestQuality
  low, high, mid, attempts, best, bestBitrate,
  hist          \* one record per loop iteration, in order

searchVars ==
  <<variant, category, metadata, spc, low, high, mid, attempts, best,
    bestBitrate, hist>>

VARIABLES
  op,                 \* the Handbrake method running: "sample" or "transcode"
  hwEnabled,          \* HARDWARE_ACCEL_TYPE != ""
  samples,            \* options.samples
  hpc,                \* position in sample() / transcode()
  sample,             \* sample counter of the measuring loop
  totalBitrate, successfulSamples,
  sampleAvg,          \* avgBitrate of the returned SampleResult
  rpc,                \* position in runCommand
  strat,              \* index of the strategy the for loop is at
  runLog,             \* attempts of the current runCommand call, in order
  present,            \* files on disk (scratch n is n, the output is -1)
  existsFlag,         \* MediaFile objects whose cached exists is true
  quality,            \* options.quality of sample(), q of transcode()
  sampleLength,       \* options.sampleLength
  length,             \* this.metadata.length
  version,            \* which Handbrake class of media-file.ts is running
  timeTable,          \* the time table built by sample()
  error,              \* message of the Error thrown, "" if none
  runResult,          \* what the last runCommand call returned
  written,            \* files the encoder wrote to during this call
  colorProfile,       \* metadata.colorProfile of the source
  hardwareEncoder,    \* this.settings.hardwareEncoder
  softwareEncoder     \* this.settings.softwareEncoder

sampleOptions == <<quality, sampleLength, length, version>>

settings == <<colorProfile, hardwareEncoder, softwareEncoder>>

handbrakeVars ==
  <<op, hwEnabled, samples, hpc, sample, totalBitrate, successfulSamples,
    sampleAvg, rpc, strat, runLog, present, existsFlag, sampleOptions,
    timeTable, error, runResult, written, settings>>

VARIABLES
  files,              \* the readdir listing, in order
  idx,                \* position of the for loop in the listing
  bpc,                \* position in transcodeVideos
  currentDirectory, q, fileCount,
  searched,           \* listing positions findBestQuality was called for
  returned,           \* what the findBestQuality calls returned, in order
  transcoded,         \* transcode() calls made: position, quality, outcome
  toContainer,        \* extension of the transcode output
  disk,               \* files of the destination directory
  deleted,            \* files unlinked by fileCleanup
  renamed             \* files fileCleanup called rename for

fsVars == <<toContainer, disk, deleted, renamed>>

batchVars ==
  <<files, idx, bpc, currentDirectory, q, fileCount, searched, returned,
    transcoded, fsVars>>

VARIABLES
  mainVersion,        \* which main() of src/index.ts the instances run
  ipc,                \* position of each program instance
  lockFile,           \* 0 if LOCK_FILE is absent, else the instance that wrote it
  acquired,           \* instances whose acquireLock call has returned
  path,               \* how main() of each instance went on after the lock
  step,               \* the pipeline call main() is in
  extraction          \* the forEach callback of exportSubtitles, per .mkv file

lockVars == <<mainVersion, ipc, lockFile, acquired, path>>

pipelineVars == <<step, extraction>>

mainVars == <<lockVars, pipelineVars>>

vars == <<searchVars, handbrakeVars, batchVars, mainVars>>

(***************************************************************************)
(* findBestQuality                                                         *)
(***************************************************************************)
getBitrateRange(c) ==
  IF c = "anime" THEN BITRATE_RANGES.Anime
  ELSE IF c = "shows" THEN BITRATE_RANGES.Shows
  ELSE BITRATE_RANGES.Movies

bitrateRange == getBitrateRange(category)

Mid_NoHalving(l, h) == l + h

Mid_Overshoots(l, h) == (l + h + 1) \div 2 + 10

\* Math.round(((low + high) / 2) * 10) / 10, in tenths; Math.round rounds
\* halves up.
Mid(l, h) == (l + h + 1) \div 2

Abs(x) == IF x < 0 THEN -x ELSE x

LoopCond_OffByOne ==
  low < high /\ attempts <= MaxAttempts /\ Abs(high - low) >= MinGap

LoopCond_NoGap == low < high /\ attempts < MaxAttempts

LoopCond == low < high /\ attempts < MaxAttempts /\ Abs(high - low) >= MinGap

Classify_BandFirst(estimatedSize, avgBitrate) ==
  IF avgBitrate < bitrateRange[1] THEN "belowBand"
  ELSE IF 100 * estimatedSize > 95 * metadata.size THEN "tooLarge"
  ELSE IF 100 * avgBitrate > 95 * metadata.bitrate THEN "tooHighBitrate"
  ELSE IF avgBitrate > bitrateRange[2] THEN "aboveBand"
  ELSE "feasible"

\* The if / else-if chain applied to one SampleResult.
Classify(estimatedSize, avgBitrate) ==
  IF 100 * estimatedSize > 95 * metadata.size THEN "tooLarge"
  ELSE IF 100 * avgBitrate > 95 * metadata.bitrate THEN "tooHighBitrate"
  ELSE IF avgBitrate > bitrateRange[2] THEN "aboveBand"
  ELSE IF avgBitrate < bitrateRange[1] THEN "belowBand"
  ELSE "feasible"

RaisesLow == {"tooLarge", "tooHighBitrate", "aboveBand"}

LowersHigh == {"belowBand", "feasible"}

NewLow_NoStep(cls) == IF cls \in RaisesLow THEN mid ELSE low

\* low = mid + 1 in the first three branches.
NewLow(cls) == IF cls \in RaisesLow THEN mid + 10 ELSE low

\* high = mid - 1 in the last two branches.
NewHigh(cls) == IF cls \in LowersHigh THEN mid - 10 ELSE high

Records_Latest(cls, avgBitrate) == cls \in LowersHigh

Records_OrEqual(cls, avgBitrate) ==
  cls \in LowersHigh /\ avgBitrate >= bestBitrate

\* if (avgBitrate > bestBitrate) { bestBitrate = avgBitrate; best = mid; }
Records(cls, avgBitrate) == cls \in LowersHigh /\ avgBitrate > bestBitrate

EIGHT_BIT_COLOR_PROFILES == {"yuv420p", "yuv444p"}

hwAccel_h265_10 == "vce_h265_10bit"

hwAccel_h265 == "vce_h265"

software_h265 == "x265"

software_h265_10 == "x265_10bit"

\* Pixel formats ffprobe reports for the sources.
ColorProfiles == {"yuv420p", "yuv444p", "yuv420p10le"}

getSettings_SoftwareStandard(profile) ==
  LET hw == IF profile \in EIGHT_BIT_COLOR_PROFILES THEN hwAccel_h265
            ELSE hwAccel_h265_10
  IN [hardwareEncoder |-> hw, softwareEncoder |-> software_h265]

\* getSettings: the encoder pair of the source's color profile.
getSettings(profile) ==
  LET hw == IF profile \in EIGHT_BIT_COLOR_PROFILES THEN hwAccel_h265
            ELSE hwAccel_h265_10
  IN [hardwareEncoder |-> hw,
      softwareEncoder |-> IF hw = hwAccel_h265_10 THEN software_h265_10
                          ELSE software_h265]

\* The settings Handbrake.init stores for a source of the given profile.
Initialised(profile) ==
  /\ colorProfile = profile
  /\ hardwareEncoder = getSettings(profile).hardwareEncoder
  /\ softwareEncoder = getSettings(profile).softwareEncoder

HandbrakeIdle ==
  /\ Initialised("yuv420p")
  /\ op = "none" /\ hwEnabled = TRUE /\ samples = 0 /\ hpc = "idle"
  /\ sample = 0 /\ totalBitrate = 0 /\ successfulSamples = 0
  /\ sampleAvg = 0 /\ rpc = "idle" /\ strat = 0 /\ runLog = <<>>
  /\ present = {} /\ existsFlag = {}
  /\ quality = 0 /\ sampleLength = 0 /\ length = 0 /\ timeTable = <<>>
  /\ version = "current"
  /\ error = "" /\ runResult = "none" /\ written = {}

LockIdle ==
  /\ mainVersion = "third" /\ ipc = <<>> /\ lockFile = 0 /\ acquired = {}
  /\ path = <<>>

PipelineIdle == step = "idle" /\ extraction = <<>>

MainIdle == LockIdle /\ PipelineIdle

BatchIdle ==
  /\ files = <<>> /\ idx = 0 /\ bpc = "idle" /\ currentDirectory = ""
  /\ q = DEFAULT_Q /\ fileCount = 0 /\ searched = <<>> /\ transcoded = <<>>
  /\ returned = <<>>
  /\ toContainer = ".mp4" /\ disk = {} /\ deleted = {} /\ renamed = {}

InitSearch ==
  /\ HandbrakeIdle
  /\ BatchIdle
  /\ MainIdle
  /\ variant \in Variants
  /\ category \in Categories
  /\ metadata \in SourceMetadata
  /\ spc = "start"
  /\ low = 0 /\ high = 0 /\ mid = 0 /\ attempts = 0
  /\ best = DEFAULT_Q /\ bestBitrate = 0
  /\ hist = <<>>

\* video.getDetails() gives nothing: return DEFAULT_Q.
ProbeFails ==
  /\ UNCHANGED <<handbrakeVars, batchVars, mainVars>>
  /\ spc = "start"
  /\ spc' = "done"
  /\ UNCHANGED <<variant, category, metadata, low, high, mid, attempts, best,
                 bestBitrate, hist>>

\* Handbrake.init(video) throws: findBestQuality rejects.
InitThrows ==
  /\ UNCHANGED <<handbrakeVars, batchVars, mainVars>>
  /\ spc = "start"
  /\ spc' = "raised"
  /\ low' = InitialLow(variant) /\ high' = InitialHigh(variant)
  /\ mid' = Mid(InitialLow(variant), InitialHigh(variant))
  /\ UNCHANGED <<variant, category, metadata, attempts, best, bestBitrate, hist>>

\* Locals set up, encoder wrapper ready, loop entered.
Begin ==
  /\ UNCHANGED <<handbrakeVars, batchVars, mainVars>>
  /\ spc = "start"
  /\ spc' = "loop"
  /\ low' = InitialLow(variant) /\ high' = InitialHigh(variant)
  /\ mid' = Mid(InitialLow(variant), InitialHigh(variant))
  /\ UNCHANGED <<variant, category, metadata, attempts, best, bestBitrate, hist>>

SampleError_AsTooLarge ==
  /\ UNCHANGED <<handbrakeVars, batchVars, mainVars>>
  /\ spc = "loop" /\ LoopCond
  /\ attempts' = attempts + 1
  /\ low' = mid + 10
  /\ mid' = Mid(mid + 10, high)
  /\ hist' = Append(hist, [mid |-> mid, kind |-> "error", avg |-> 0, est |-> 0])
  /\ UNCHANGED <<variant, category, metadata, spc, high, best, bestBitrate>>

\* One iteration in which handbrake.sample() raises.
SampleError ==
  /\ UNCHANGED <<handbrakeVars, batchVars, mainVars>>
  /\ spc = "loop" /\ LoopCond
  /\ attempts' = attempts + 1
  /\ hist' = Append(hist, [mid |-> mid, kind |-> "error", avg |-> 0, est |-> 0])
  /\ UNCHANGED <<variant, category, metadata, spc, low, high, mid, best, bestBitrate>>

\* One iteration in which handbrake.sample() returns a SampleResult.
SampleOk ==
  /\ UNCHANGED <<handbrakeVars, batchVars, mainVars>>
  /\ spc = "loop" /\ LoopCond
  /\ \E data \in SampleResults :
       LET estimatedSize == data.estimatedSize
           avgBitrate == data.avgBitrate
           cls == Classify(estimatedSize, avgBitrate)
           newLow == NewLow(cls)
           newHigh == NewHigh(cls)
           record == Records(cls, avgBitrate)
       IN /\ attempts' = attempts + 1
          /\ low' = newLow
          /\ high' = newHigh
          /\ best' = IF record THEN mid ELSE best
          /\ bestBitrate' = IF record THEN avgBitrate ELSE bestBitrate
          /\ mid' = Mid(newLow, newHigh)
          /\ hist' = Append(hist, [mid |-> mid, kind |-> cls,
                                   avg |-> avgBitrate, est |-> estimatedSize])
  /\ UNCHANGED <<variant, category, metadata, spc>>

\* The loop condition is false: return best.
Return ==
  /\ UNCHANGED <<handbrakeVars, batchVars, mainVars>>
  /\ spc = "loop" /\ ~LoopCond
  /\ spc' = "done"
  /\ UNCHANGED <<variant, category, metadata, low, high, mid, attempts, best,
                 bestBitrate, hist>>

NextSearch == ProbeFails \/ InitThrows \/ Begin \/ SampleError \/ SampleOk \/ Return

SpecSearch == InitSearch /\ [][NextSearch]_vars

\* The search of part_012 on one source, with the scheduling of a single
\* awaited async function: a step that can be taken is taken.
InitFairSearch ==
  /\ InitSearch
  /\ variant = "part_012"
  /\ metadata = [size |-> 1000, bitrate |-> 667]

FairSearch == InitFairSearch /\ [][NextSearch]_vars /\ WF_vars(NextSearch)

(***************************************************************************)
(* findBestQuality of src/sample-videos.ts: attempts count down from 6,    *)
(* the window is 0..31, mid is computed once, the encoder wrapper is       *)
(* initialised in every iteration, and only the last branch records.       *)
(***************************************************************************)
SampleVideosAttempts == 6

SampleVideosLow == 0

SampleVideosHigh == 310

InitSampleVideos ==
  /\ HandbrakeIdle
  /\ BatchIdle
  /\ MainIdle
  /\ variant = "sample-videos.ts"
  /\ category \in Categories
  /\ metadata \in SourceMetadata
  /\ spc = "start"
  /\ low = 0 /\ high = 0 /\ mid = 0 /\ attempts = 0
  /\ best = DEFAULT_Q /\ bestBitrate = 0
  /\ hist = <<>>

SampleVideosLoopCond == low < high /\ attempts > 0

\* Only the final else branch holds the bestBitrate comparison.
SampleVideosRecords(cls, avgBitrate) ==
  cls = "feasible" /\ avgBitrate > bestBitrate

\* video.getDetails() gives nothing: return DEFAULT_Q.
SampleVideosProbeFails ==
  /\ UNCHANGED <<handbrakeVars, batchVars, mainVars>>
  /\ spc = "start"
  /\ spc' = "done"
  /\ UNCHANGED <<variant, category, metadata, low, high, mid, attempts, best,
                 bestBitrate, hist>>

SampleVideosBegin ==
  /\ UNCHANGED <<handbrakeVars, batchVars, mainVars>>
  /\ spc = "start"
  /\ spc' = "loop"
  /\ attempts' = SampleVideosAttempts
  /\ low' = SampleVideosLow /\ high' = SampleVideosHigh
  /\ mid' = Mid(SampleVideosLow, SampleVideosHigh)
  /\ UNCHANGED <<variant, category, metadata, best, bestBitrate, hist>>

\* Handbrake.init(video) inside the loop throws: findBestQuality rejects.
SampleVideosInitThrows ==
  /\ UNCHANGED <<handbrakeVars, batchVars, mainVars>>
  /\ spc = "loop" /\ SampleVideosLoopCond
  /\ attempts' = attempts - 1
  /\ spc' = "raised"
  /\ UNCHANGED <<variant, category, metadata, low, high, mid, best,
                 bestBitrate, hist>>

SampleVideosSampleError ==
  /\ UNCHANGED <<handbrakeVars, batchVars, mainVars>>
  /\ spc = "loop" /\ SampleVideosLoopCond
  /\ attempts' = attempts - 1
  /\ hist' = Append(hist, [mid |-> mid, kind |-> "error", avg |-> 0, est |-> 0])
  /\ UNCHANGED <<variant, category, metadata, spc, low, high, mid, best, bestBitrate>>

SampleVideosSampleOk ==
  /\ UNCHANGED <<handbrakeVars, batchVars, mainVars>>
  /\ spc = "loop" /\ SampleVideosLoopCond
  /\ \E data \in SampleResults :
       LET estimatedSize == data.estimatedSize
           avgBitrate == data.avgBitrate
           cls == Classify(estimatedSize, avgBitrate)
           record == SampleVideosRecords(cls, avgBitrate)
       IN /\ attempts' = attempts - 1
          /\ low' = NewLow(cls)
          /\ high' = NewHigh(cls)
          /\ best' = IF record THEN mid ELSE best
          /\ bestBitrate' = IF record THEN avgBitrate ELSE bestBitrate
          /\ hist' = Append(hist, [mid |-> mid, kind |-> cls,
                                   avg |-> avgBitrate, est |-> estimatedSize])
  /\ UNCHANGED <<variant, category, metadata, spc, mid>>

SampleVideosReturn ==
  /\ UNCHANGED <<handbrakeVars, batchVars, mainVars>>
  /\ spc = "loop" /\ ~SampleVideosLoopCond
  /\ spc' = "done"
  /\ UNCHANGED <<variant, category, metadata, low, high, mid, attempts, best,
                 bestBitrate, hist>>

NextSampleVideos ==
  \/ SampleVideosProbeFails \/ SampleVideosBegin \/ SampleVideosInitThrows
  \/ SampleVideosSampleError \/ SampleVideosSampleOk \/ SampleVideosReturn

SpecSampleVideos == InitSampleVideos /\ [][NextSampleVideos]_vars

(***************************************************************************)
(* findOptimalQuality of src/transcode-videos.ts: integer qualities in the *)
(* window 3..40, at most 8 attempts, the loop goes on while low <= high or *)
(* mid differs from lastMid, one test encode per attempt.                  *)
(***************************************************************************)
OptimalAttempts == 8

OptimalLow == 30

OptimalHigh == 400

\* Math.round((low + high) / 2) on whole qualities, kept in tenths.
OptimalMid(l, h) == 10 * (((l + h) \div 10 + 1) \div 2)

\* Iterations that ran to the end of the loop body and assigned lastMid.
Completed(h) == {i \in 1..Len(h) : h[i].kind \notin {"error", "encodeFailed"}}

\* lastMid, -1 standing for null.
lastMid ==
  IF Completed(hist) = {} THEN -1
  ELSE hist[CHOOSE i \in Completed(hist) : \A j \in Completed(hist) : j <= i].mid

\* What the probe of one test encode may report: estimated size (MB) and
\* bitrate.
OptimalProbes ==
  {[estimatedSize |-> 525, avgBitrate |-> 150],
   [estimatedSize |-> 525, avgBitrate |-> 350],
   [estimatedSize |-> 525, avgBitrate |-> 650]}

OptimalLoopCond ==
  attempts < OptimalAttempts /\ (low <= high \/ mid # lastMid)

\* The if / else-if chain on the probed test encode.
OptimalClassify(estimatedSize, estimatedBitrate) ==
  IF \/ estimatedSize >= metadata.size
     \/ estimatedBitrate >= metadata.bitrate
     \/ estimatedBitrate >= bitrateRange[2]
  THEN "aboveBand"
  ELSE IF estimatedBitrate <= bitrateRange[1] THEN "belowBand"
  ELSE "feasible"

InitOptimal ==
  /\ HandbrakeIdle
  /\ BatchIdle
  /\ MainIdle
  /\ variant = "transcode-videos.ts"
  /\ category \in Categories
  /\ metadata \in SourceMetadata
  /\ spc = "start"
  /\ low = 0 /\ high = 0 /\ mid = 0 /\ attempts = 0
  /\ best = DEFAULT_Q /\ bestBitrate = 0
  /\ hist = <<>>

\* video.getDetails() or getVideoTranscodeSettings() gives nothing.
OptimalProbeFails ==
  /\ UNCHANGED <<handbrakeVars, batchVars, mainVars>>
  /\ spc = "start"
  /\ spc' = "done"
  /\ UNCHANGED <<variant, category, metadata, low, high, mid, attempts, best,
                 bestBitrate, hist>>

OptimalBegin ==
  /\ UNCHANGED <<handbrakeVars, batchVars, mainVars>>
  /\ spc = "start"
  /\ spc' = "loop"
  /\ low' = OptimalLow /\ high' = OptimalHigh
  /\ mid' = OptimalMid(OptimalLow, OptimalHigh)
  /\ UNCHANGED <<variant, category, metadata, attempts, best, bestBitrate, hist>>

\* All three encoder tries of the attempt fail: return DEFAULT_Q.
OptimalEncodeFails ==
  /\ UNCHANGED <<handbrakeVars, batchVars, mainVars>>
  /\ spc = "loop" /\ OptimalLoopCond
  /\ attempts' = attempts + 1
  /\ hist' = Append(hist, [mid |-> mid, kind |-> "encodeFailed",
                           avg |-> 0, est |-> 0])
  /\ spc' = "done"
  /\ UNCHANGED <<variant, category, metadata, low, high, mid, best, bestBitrate>>

\* The test encode succeeds but outputVideo.getDetails() gives nothing:
\* continue.
OptimalNoMetadata ==
  /\ UNCHANGED <<handbrakeVars, batchVars, mainVars>>
  /\ spc = "loop" /\ OptimalLoopCond
  /\ attempts' = attempts + 1
  /\ hist' = Append(hist, [mid |-> mid, kind |-> "error", avg |-> 0, est |-> 0])
  /\ UNCHANGED <<variant, category, metadata, spc, low, high, mid, best, bestBitrate>>

\* The test encode succeeds and is probed.
OptimalProbe ==
  /\ UNCHANGED <<handbrakeVars, batchVars, mainVars>>
  /\ spc = "loop" /\ OptimalLoopCond
  /\ \E data \in OptimalProbes :
       LET estimatedSize == data.estimatedSize
           estimatedBitrate == data.avgBitrate
           cls == OptimalClassify(estimatedSize, estimatedBitrate)
           newLow == IF cls = "aboveBand" THEN mid + 10 ELSE low
           newHigh == IF cls = "aboveBand" THEN high ELSE mid - 10
           record == cls # "aboveBand" /\ bestBitrate <= estimatedBitrate
       IN /\ attempts' = attempts + 1
          /\ low' = newLow
          /\ high' = newHigh
          /\ best' = IF record THEN mid ELSE best
          /\ bestBitrate' = IF record THEN estimatedBitrate ELSE bestBitrate
          /\ mid' = OptimalMid(newLow, newHigh)
          /\ hist' = Append(hist, [mid |-> mid, kind |-> cls,
                                   avg |-> estimatedBitrate,
                                   est |-> estimatedSize])
  /\ UNCHANGED <<variant, category, metadata, spc>>

\* The loop condition is false: return best_q || DEFAULT_Q.
OptimalReturn ==
  /\ UNCHANGED <<handbrakeVars, batchVars, mainVars>>
  /\ spc = "loop" /\ ~OptimalLoopCond
  /\ spc' = "done"
  /\ UNCHANGED <<variant, category, metadata, low, high, mid, attempts, best,
                 bestBitrate, hist>>

\* The value findOptimalQuality hands back once spc is "done".
OptimalResult ==
  IF hist # <<>> /\ hist[Len(hist)].kind = "encodeFailed" THEN DEFAULT_Q
  ELSE IF best = 0 THEN DEFAULT_Q
  ELSE best

NextOptimal ==
  \/ OptimalProbeFails \/ OptimalBegin \/ OptimalEncodeFails
  \/ OptimalNoMetadata \/ OptimalProbe \/ OptimalReturn

SpecOptimal == InitOptimal /\ [][NextOptimal]_vars

(***************************************************************************)
(* Handbrake: runCommand, transcode, sample                                *)
(***************************************************************************)
MaxSamples == 3

ProbeBitrates == {200, 350}

OutputVideo == -1

\* Argument values of sample() and transcode(): quality in tenths,
\* sampleLength in seconds; metadata.length of the source in seconds.
Qualities == {-10, 0, 235, 510, 511}

SampleLengths == {-1, 0, 2, 7}

Lengths == {1, 6, 20}

MaxQuality == 510

\* The two Handbrake classes: "current" adjusts the duration of a sample,
\* "previous" passes options.sampleLength on.
Versions == {"current", "previous"}

\* What "return;" after an exit code 0 and falling off the end of the
\* strategy loop hand to the caller.
ReturnOnSuccess == "undefined"

ReturnOnFailure == "undefined"

SampleOptionsInvalid_NoUpperBound ==
  samples <= 0 \/ sampleLength <= 0 \/ quality <= 0

SampleOptionsInvalid ==
  samples <= 0 \/ sampleLength <= 0 \/ quality <= 0 \/ quality > MaxQuality

\* let sampleLength = options.sampleLength; shortened to
\* floor(length / samples) when the samples do not fit.
EffectiveSampleLength ==
  IF sampleLength * samples > length THEN length \div samples
  ELSE sampleLength

timeFrames == length \div samples

\* The i-th entry pushed to timeTable, i from 0.
TimeTableEntry(i) ==
  LET start == i * timeFrames
  IN [start |-> IF start = 0 THEN 1 ELSE start,
      duration |-> IF version = "previous" THEN sampleLength
                   ELSE EffectiveSampleLength,
      output |-> i]

StrategyNames ==
  <<"HW Accel", "Semi-Software Fallback", "Full Software Fallback">>

\* The enabled field of the k-th entry of strategies.
StrategyEnabled(k) == IF k = 1 THEN hwEnabled ELSE TRUE

\* The encoder field of the k-th entry of strategies.
StrategyEncoder(k) == IF k = 3 THEN softwareEncoder ELSE hardwareEncoder

\* options.outputVideo of the runCommand call in progress.
Target == IF op = "transcode" THEN OutputVideo ELSE timeTable[sample].output

\* round(totalBitrate / successfulSamples), in hundredths.
RoundDiv(t, n) == (2 * t + n) \div (2 * n)

SearchIdle ==
  /\ variant = "part_012" /\ category = "movies"
  /\ metadata = [size |-> 1000, bitrate |-> 667]
  /\ spc = "idle" /\ low = 0 /\ high = 0 /\ mid = 0 /\ attempts = 0
  /\ best = DEFAULT_Q /\ bestBitrate = 0 /\ hist = <<>>

\* The calls made on an initialised Handbrake object and the files around
\* them.
HandbrakeCall ==
  /\ SearchIdle
  /\ BatchIdle
  /\ MainIdle
  /\ op \in {"sample", "transcode"}
  /\ hwEnabled \in BOOLEAN
  /\ quality \in Qualities
  /\ samples \in IF op = "sample" THEN (-1)..MaxSamples ELSE {0}
  /\ sampleLength \in IF op = "sample" THEN SampleLengths ELSE {0}
  /\ length \in Lengths
  /\ version \in IF op = "sample" THEN Versions ELSE {"current"}
  /\ timeTable = <<>> /\ error = "" /\ runResult = "none" /\ written = {}
  /\ hpc = "start"
  /\ sample = 0 /\ totalBitrate = 0 /\ successfulSamples = 0 /\ sampleAvg = 0
  /\ rpc = "idle" /\ strat = 0 /\ runLog = <<>>
  /\ present \in SUBSET (0..(samples - 1))
  /\ existsFlag = {}

InitHandbrake == Initialised("yuv420p") /\ HandbrakeCall

\* runCommand: if (options.start && options.duration) the sample preset
\* and --start-at / --stop-at are used, else the full-length preset.
HasTimeRange(start, duration) == start # 0 /\ duration # 0

\* sample(): the options fail the check at the top; nothing else is done.
InvalidSampleOptions ==
  /\ op = "sample" /\ hpc = "start"
  /\ SampleOptionsInvalid
  /\ hpc' = "raised"
  /\ error' = "Invalid sample options"
  /\ UNCHANGED <<op, hwEnabled, samples, sample, totalBitrate,
                 successfulSamples, sampleAvg, rpc, strat, runLog, present,
                 existsFlag>>
  /\ UNCHANGED <<sampleOptions, timeTable, runResult, written>>
  /\ UNCHANGED <<searchVars, batchVars, settings, mainVars>>

\* sample(): options are valid; the time table is built, MediaFile.init of
\* each scratch output caches whether the file exists.
BuildTimeTable ==
  /\ op = "sample" /\ hpc = "start"
  /\ ~SampleOptionsInvalid
  /\ timeTable' = [k \in 1..samples |-> TimeTableEntry(k - 1)]
  /\ existsFlag' = present \cap (0..(samples - 1))
  /\ hpc' = "loop"
  /\ UNCHANGED <<op, hwEnabled, samples, sample, totalBitrate,
                 successfulSamples, sampleAvg, rpc, strat, runLog, present>>
  /\ UNCHANGED <<sampleOptions, error, runResult, written>>
  /\ UNCHANGED <<searchVars, batchVars, settings, mainVars>>

\* sample(): next entry of the time table, runCommand is called for it.
SampleRun ==
  /\ op = "sample" /\ hpc = "loop" /\ sample < samples
  /\ sample' = sample + 1
  /\ hpc' = "run" /\ rpc' = "next" /\ strat' = 1 /\ runLog' = <<>>
  /\ runResult' = "pending"
  /\ UNCHANGED <<op, hwEnabled, samples, totalBitrate, successfulSamples,
                 sampleAvg, present, existsFlag>>
  /\ UNCHANGED <<sampleOptions, timeTable, error, written>>
  /\ UNCHANGED <<searchVars, batchVars, settings, mainVars>>

\* transcode(): runCommand is called for the full-length output.
TranscodeRun ==
  /\ op = "transcode" /\ hpc = "start"
  /\ hpc' = "run" /\ rpc' = "next" /\ strat' = 1 /\ runLog' = <<>>
  /\ runResult' = "pending"
  /\ UNCHANGED <<op, hwEnabled, samples, sample, totalBitrate,
                 successfulSamples, sampleAvg, present, existsFlag>>
  /\ UNCHANGED <<sampleOptions, timeTable, error, written>>
  /\ UNCHANGED <<searchVars, batchVars, settings, mainVars>>

\* runCommand: if (!strat.enabled) continue;
SkipDisabled ==
  /\ hpc = "run" /\ rpc = "next" /\ strat <= 3 /\ ~StrategyEnabled(strat)
  /\ strat' = strat + 1
  /\ UNCHANGED <<op, hwEnabled, samples, hpc, sample, totalBitrate,
                 successfulSamples, sampleAvg, rpc, runLog, present, existsFlag>>
  /\ UNCHANGED <<sampleOptions, timeTable, error, runResult, written>>
  /\ UNCHANGED <<searchVars, batchVars, settings, mainVars>>

Spawn_NoAwait ==
  /\ hpc = "run" /\ rpc = "next" /\ strat <= 3 /\ StrategyEnabled(strat)
  /\ runLog' = Append(runLog, [strat |-> strat, result |-> "running",
                             encoder |-> StrategyEncoder(strat)])
  /\ rpc' = "sleep"
  /\ UNCHANGED <<op, hwEnabled, samples, hpc, sample, totalBitrate,
                 successfulSamples, sampleAvg, strat, present, existsFlag>>
  /\ UNCHANGED <<sampleOptions, timeTable, error, runResult, written>>
  /\ UNCHANGED <<searchVars, batchVars, settings, mainVars>>

\* runCommand: spawn() starts the encoder process of the strategy.
Spawn ==
  /\ hpc = "run" /\ rpc = "next" /\ strat <= 3 /\ StrategyEnabled(strat)
  /\ runLog' = Append(runLog, [strat |-> strat, result |-> "running",
                             encoder |-> StrategyEncoder(strat)])
  /\ rpc' = "running"
  /\ UNCHANGED <<op, hwEnabled, samples, hpc, sample, totalBitrate,
                 successfulSamples, sampleAvg, strat, present, existsFlag>>
  /\ UNCHANGED <<sampleOptions, timeTable, error, runResult, written>>
  /\ UNCHANGED <<searchVars, batchVars, settings, mainVars>>

\* runCommand: spawn() itself throws; caught, then the backoff sleep.
SpawnError ==
  /\ hpc = "run" /\ rpc = "next" /\ strat <= 3 /\ StrategyEnabled(strat)
  /\ runLog' = Append(runLog, [strat |-> strat, result |-> "spawnError",
                             encoder |-> StrategyEncoder(strat)])
  /\ rpc' = "sleep"
  /\ UNCHANGED <<op, hwEnabled, samples, hpc, sample, totalBitrate,
                 successfulSamples, sampleAvg, strat, present, existsFlag>>
  /\ UNCHANGED <<sampleOptions, timeTable, error, runResult, written>>
  /\ UNCHANGED <<searchVars, batchVars, settings, mainVars>>

ExitZero_NoReturn ==
  /\ hpc = "run" /\ rpc = "running"
  /\ runLog' = [runLog EXCEPT ![Len(runLog)].result = "exit0"]
  /\ present' = present \cup {Target}
  /\ written' = written \cup {Target}
  /\ rpc' = "sleep"
  /\ UNCHANGED <<op, hwEnabled, samples, hpc, sample, totalBitrate,
                 successfulSamples, sampleAvg, strat, existsFlag>>
  /\ UNCHANGED <<sampleOptions, timeTable, error, runResult>>
  /\ UNCHANGED <<searchVars, batchVars, settings, mainVars>>

\* runCommand: the process exits with code 0; sleep, then return.
ExitZero ==
  /\ hpc = "run" /\ rpc = "running"
  /\ runLog' = [runLog EXCEPT ![Len(runLog)].result = "exit0"]
  /\ present' = present \cup {Target}
  /\ written' = written \cup {Target}
  /\ rpc' = "returned"
  /\ runResult' = ReturnOnSuccess
  /\ UNCHANGED <<op, hwEnabled, samples, hpc, sample, totalBitrate,
                 successfulSamples, sampleAvg, strat, existsFlag>>
  /\ UNCHANGED <<sampleOptions, timeTable, error>>
  /\ UNCHANGED <<searchVars, batchVars, settings, mainVars>>

ExitFailure_NoBackoff ==
  /\ hpc = "run" /\ rpc = "running"
  /\ runLog' = [runLog EXCEPT ![Len(runLog)].result = "failed"]
  /\ \E partial \in BOOLEAN :
       /\ present' = IF partial THEN present \cup {Target} ELSE present
       /\ written' = IF partial THEN written \cup {Target} ELSE written
  /\ rpc' = "next"
  /\ strat' = strat + 1
  /\ UNCHANGED <<op, hwEnabled, samples, hpc, sample, totalBitrate,
                 successfulSamples, sampleAvg, existsFlag>>
  /\ UNCHANGED <<sampleOptions, timeTable, error, runResult>>
  /\ UNCHANGED <<searchVars, batchVars, settings, mainVars>>

\* runCommand: the process exits with another code; the output is left
\* partially written or not written at all.
ExitFailure ==
  /\ hpc = "run" /\ rpc = "running"
  /\ runLog' = [runLog EXCEPT ![Len(runLog)].result = "failed"]
  /\ \E partial \in BOOLEAN :
       /\ present' = IF partial THEN present \cup {Target} ELSE present
       /\ written' = IF partial THEN written \cup {Target} ELSE written
  /\ rpc' = "sleep"
  /\ UNCHANGED <<op, hwEnabled, samples, hpc, sample, totalBitrate,
                 successfulSamples, sampleAvg, strat, existsFlag>>
  /\ UNCHANGED <<sampleOptions, timeTable, error, runResult>>
  /\ UNCHANGED <<searchVars, batchVars, settings, mainVars>>

\* runCommand: await Bun.sleep(2500) after a failed attempt, next strategy.
Backoff ==
  /\ hpc = "run" /\ rpc = "sleep"
  /\ strat' = strat + 1
  /\ rpc' = "next"
  /\ UNCHANGED <<op, hwEnabled, samples, hpc, sample, totalBitrate,
                 successfulSamples, sampleAvg, runLog, present, existsFlag>>
  /\ UNCHANGED <<sampleOptions, timeTable, error, runResult, written>>
  /\ UNCHANGED <<searchVars, batchVars, settings, mainVars>>

\* runCommand: the for loop is over, every enabled strategy failed.
AllFailed ==
  /\ hpc = "run" /\ rpc = "next" /\ strat > 3
  /\ rpc' = "returned"
  /\ runResult' = ReturnOnFailure
  /\ UNCHANGED <<op, hwEnabled, samples, hpc, sample, totalBitrate,
                 successfulSamples, sampleAvg, strat, runLog, present, existsFlag>>
  /\ UNCHANGED <<sampleOptions, timeTable, error, written>>
  /\ UNCHANGED <<searchVars, batchVars, settings, mainVars>>

\* transcode(): runCommand has returned; return settings.outputVideo.
TranscodeReturn ==
  /\ op = "transcode" /\ hpc = "run" /\ rpc = "returned"
  /\ hpc' = "done" /\ rpc' = "idle"
  /\ UNCHANGED <<op, hwEnabled, samples, sample, totalBitrate,
                 successfulSamples, sampleAvg, strat, runLog, present, existsFlag>>
  /\ UNCHANGED <<sampleOptions, timeTable, error, runResult, written>>
  /\ UNCHANGED <<searchVars, batchVars, settings, mainVars>>

\* sample(): time.output.getDetails() -> ensureExists() throws "File does
\* not exist"; nothing in sample() catches it.
ProbeThrows ==
  /\ op = "sample" /\ hpc = "run" /\ rpc = "returned"
  /\ Target \notin existsFlag /\ Target \notin present
  /\ hpc' = "raised" /\ rpc' = "idle"
  /\ error' = "File does not exist"
  /\ UNCHANGED <<op, hwEnabled, samples, sample, totalBitrate,
                 successfulSamples, sampleAvg, strat, runLog, present, existsFlag>>
  /\ UNCHANGED <<sampleOptions, timeTable, runResult, written>>
  /\ UNCHANGED <<searchVars, batchVars, settings, mainVars>>

ProbeInvalid_KeepsFile ==
  /\ op = "sample" /\ hpc = "run" /\ rpc = "returned"
  /\ Target \in existsFlag \/ Target \in present
  /\ existsFlag' = existsFlag \cup {Target}
  /\ hpc' = "loop" /\ rpc' = "idle"
  /\ UNCHANGED <<op, hwEnabled, samples, sample, totalBitrate,
                 successfulSamples, sampleAvg, strat, runLog, present>>
  /\ UNCHANGED <<sampleOptions, timeTable, error, runResult, written>>
  /\ UNCHANGED <<searchVars, batchVars, settings, mainVars>>

\* sample(): getDetails() gives undefined or a bitrate that is not > 0; the
\* sample is left out, the scratch file deleted.
ProbeInvalid ==
  /\ op = "sample" /\ hpc = "run" /\ rpc = "returned"
  /\ Target \in existsFlag \/ Target \in present
  /\ existsFlag' = existsFlag \cup {Target}
  /\ present' = present \ {Target}
  /\ hpc' = "loop" /\ rpc' = "idle"
  /\ UNCHANGED <<op, hwEnabled, samples, sample, totalBitrate,
                 successfulSamples, sampleAvg, strat, runLog>>
  /\ UNCHANGED <<sampleOptions, timeTable, error, runResult, written>>
  /\ UNCHANGED <<searchVars, batchVars, settings, mainVars>>

\* sample(): getDetails() gives a bitrate > 0; it is added to the sums, the
\* scratch file deleted.
ProbeValid ==
  /\ op = "sample" /\ hpc = "run" /\ rpc = "returned"
  /\ Target \in present
  /\ \E bitrate \in ProbeBitrates : totalBitrate' = totalBitrate + bitrate
  /\ successfulSamples' = successfulSamples + 1
  /\ existsFlag' = existsFlag \cup {Target}
  /\ present' = present \ {Target}
  /\ hpc' = "loop" /\ rpc' = "idle"
  /\ UNCHANGED <<op, hwEnabled, samples, sample, sampleAvg, strat, runLog>>
  /\ UNCHANGED <<sampleOptions, timeTable, error, runResult, written>>
  /\ UNCHANGED <<searchVars, batchVars, settings, mainVars>>

\* round((avgBitrate * this.metadata.length) / 8), in hundredths of a MB.
EstimatedSize == RoundDiv(sampleAvg * length, 8)

\* sample(): no sample was valid.
SampleRaises ==
  /\ op = "sample" /\ hpc = "loop" /\ sample = samples
  /\ successfulSamples = 0
  /\ hpc' = "raised"
  /\ error' = "All samples failed to produce valid statistics."
  /\ UNCHANGED <<op, hwEnabled, samples, sample, totalBitrate,
                 successfulSamples, sampleAvg, rpc, strat, runLog, present,
                 existsFlag>>
  /\ UNCHANGED <<sampleOptions, timeTable, runResult, written>>
  /\ UNCHANGED <<searchVars, batchVars, settings, mainVars>>

\* sample(): return the average over the valid samples.
SampleReturns ==
  /\ op = "sample" /\ hpc = "loop" /\ sample = samples
  /\ successfulSamples > 0
  /\ sampleAvg' = RoundDiv(totalBitrate, successfulSamples)
  /\ hpc' = "done"
  /\ UNCHANGED <<op, hwEnabled, samples, sample, totalBitrate,
                 successfulSamples, rpc, strat, runLog, present, existsFlag>>
  /\ UNCHANGED <<sampleOptions, timeTable, error, runResult, written>>
  /\ UNCHANGED <<searchVars, batchVars, settings, mainVars>>

RunCommand ==
  SkipDisabled \/ Spawn \/ SpawnError \/ ExitZero \/ ExitFailure \/ Backoff
    \/ AllFailed

NextHandbrake ==
  \/ InvalidSampleOptions \/ BuildTimeTable \/ SampleRun \/ TranscodeRun
  \/ RunCommand
  \/ TranscodeReturn \/ ProbeThrows \/ ProbeInvalid \/ ProbeValid
  \/ SampleRaises \/ SampleReturns

SpecHandbrake == InitHandbrake /\ [][NextHandbrake]_vars

\* Handbrake.init for sources of every color profile, then the same calls.
InitEncoders ==
  /\ \E profile \in ColorProfiles : Initialised(profile)
  /\ HandbrakeCall

SpecEncoders == InitEncoders /\ [][NextHandbrake]_vars

(***************************************************************************)
(* transcodeVideos                                                         *)
(***************************************************************************)
MaxFiles == 3

Dirs == {"/a", "/b"}

SKIP_TRANSCODE_CODECS == {"av1"}

ALLOW_TRANSCODE == {".mp4", ".mkv", ".avi", ".mov", ".flv", ".webm"}

KEEP_FILES_WITH_EXTENSION ==
  {".mp4", ".ass", ".srt", ".usf", ".vtt", ".sub", ".sup", ".textst", ".dvb"}

\* Extension of the transcode output: ".mp4" where getSettings spells it
\* out, TO_CONTAINER where it is configured.
Containers == {".mp4", ".mkv"}

\* What a listed path turns out to be: "video" passes every filter; "other"
\* and "subtitle" have an extension outside ALLOW_TRANSCODE; "unprobed"
\* gets no metadata; "skipCodec" has a codec of SKIP_TRANSCODE_CODECS;
\* "processed" has a base name ending in _HBPROCESSED, and so has
\* "markedSubtitle", a subtitle file named after a processed output.
Kinds ==
  {"video", "other", "subtitle", "markedSubtitle", "unprobed", "skipCodec",
   "processed"}

\* extname(file)
Extension(kind) ==
  IF kind = "other" THEN ".nfo"
  ELSE IF kind \in {"subtitle", "markedSubtitle"} THEN ".srt"
  ELSE IF kind = "processed" THEN ".mp4"
  ELSE ".mkv"

\* getDetails() gives metadata.
Probed(kind) == kind # "unprobed"

\* metadata.codec as ffprobe reports it.
Codec(kind) ==
  IF kind = "skipCodec" THEN "AV1"
  ELSE IF kind = "processed" THEN "hevc"
  ELSE "h264"

\* metadata.codec.toLowerCase()
ToLowerCase(codec) == IF codec = "AV1" THEN "av1" ELSE codec

\* base.endsWith("_HBPROCESSED")
Marked(kind) == kind \in {"processed", "markedSubtitle"}

Listed == [dir : Dirs, kind : Kinds]

\* Values findBestQuality may return: DEFAULT_Q or a sampled mid (the search
\* itself is SpecSearch; here a call is summarised by its outcome, a
\* returned quality or the rejection raised by Handbrake.init).
SearchReturns == {DEFAULT_Q, 148, 235}

Eligible_IgnoresCodec(i) ==
  LET kind == files[i].kind
  IN /\ Extension(kind) \in ALLOW_TRANSCODE
     /\ Probed(kind)
     /\ ~Marked(kind)

\* The file passes the three continue statements of the loop.
Eligible(i) ==
  LET kind == files[i].kind
  IN /\ Extension(kind) \in ALLOW_TRANSCODE
     /\ Probed(kind)
     /\ ToLowerCase(Codec(kind)) \notin SKIP_TRANSCODE_CODECS
     /\ ~Marked(kind)

\* A listed file as the directory holds it.
SourceFile(i) ==
  [file |-> i, extension |-> Extension(files[i].kind),
   marked |-> Marked(files[i].kind), content |-> "source"]

\* settings.outputVideo of listing position i, written fully or in part.
OutputFile(i, content) ==
  [file |-> i, extension |-> toContainer, marked |-> TRUE, content |-> content]

\* Pass 1 of fileCleanup: the unlink condition.
Unlinked(f) ==
  \/ f.extension \notin KEEP_FILES_WITH_EXTENSION
  \/ (f.extension = ".mp4" /\ ~f.marked)

\* Pass 2 of fileCleanup: file.name.replace("_HBPROCESSED.mp4", ".mp4").
Renamed(f) ==
  IF f.marked /\ f.extension = ".mp4" THEN [f EXCEPT !.marked = FALSE] ELSE f

NeedsSearch_Always(i) == TRUE

\* if (currentDirectory !== video.dirPath)
NeedsSearch(i) == currentDirectory # files[i].dir

InitBatch ==
  /\ SearchIdle
  /\ HandbrakeIdle
  /\ MainIdle
  /\ files \in UNION {[1..n -> Listed] : n \in 1..MaxFiles}
  /\ idx = 1 /\ bpc = "loop" /\ currentDirectory = "" /\ q = DEFAULT_Q
  /\ fileCount = 0 /\ searched = <<>> /\ transcoded = <<>>
  /\ returned = <<>>
  /\ toContainer \in Containers
  /\ disk = {SourceFile(i) : i \in 1..Len(files)}
  /\ deleted = {} /\ renamed = {}

\* One of the continue statements before fileCount++.
SkipFile ==
  /\ bpc = "loop" /\ idx <= Len(files) /\ ~Eligible(idx)
  /\ idx' = idx + 1
  /\ UNCHANGED <<files, bpc, currentDirectory, q, fileCount, searched, returned, transcoded>>
  /\ UNCHANGED fsVars
  /\ UNCHANGED <<searchVars, handbrakeVars, mainVars>>

\* First file of a new directory: q = await findBestQuality(video, ...),
\* which returns a quality.
SearchDirectory ==
  /\ bpc = "loop" /\ idx <= Len(files) /\ Eligible(idx) /\ NeedsSearch(idx)
  /\ fileCount' = fileCount + 1
  /\ currentDirectory' = files[idx].dir
  /\ searched' = Append(searched, idx)
  /\ \E best_q \in SearchReturns :
       /\ q' = best_q
       /\ returned' = Append(returned, [file |-> idx, q |-> best_q])
  /\ bpc' = "transcode"
  /\ UNCHANGED <<files, idx, transcoded>>
  /\ UNCHANGED fsVars
  /\ UNCHANGED <<searchVars, handbrakeVars, mainVars>>

\* First file of a new directory: Handbrake.init inside findBestQuality
\* throws; the rejection leaves transcodeVideos.
SearchThrows ==
  /\ bpc = "loop" /\ idx <= Len(files) /\ Eligible(idx) /\ NeedsSearch(idx)
  /\ fileCount' = fileCount + 1
  /\ currentDirectory' = files[idx].dir
  /\ searched' = Append(searched, idx)
  /\ bpc' = "aborted"
  /\ UNCHANGED <<files, idx, q, transcoded, returned>>
  /\ UNCHANGED fsVars
  /\ UNCHANGED <<searchVars, handbrakeVars, mainVars>>

ReuseQuality_Resets ==
  /\ bpc = "loop" /\ idx <= Len(files) /\ Eligible(idx) /\ ~NeedsSearch(idx)
  /\ fileCount' = fileCount + 1
  /\ q' = DEFAULT_Q
  /\ bpc' = "transcode"
  /\ UNCHANGED <<files, idx, currentDirectory, searched, returned, transcoded>>
  /\ UNCHANGED fsVars
  /\ UNCHANGED <<searchVars, handbrakeVars, mainVars>>

\* Another file of the current directory: q is reused.
ReuseQuality ==
  /\ bpc = "loop" /\ idx <= Len(files) /\ Eligible(idx) /\ ~NeedsSearch(idx)
  /\ fileCount' = fileCount + 1
  /\ bpc' = "transcode"
  /\ UNCHANGED <<files, idx, currentDirectory, q, searched, returned, transcoded>>
  /\ UNCHANGED fsVars
  /\ UNCHANGED <<searchVars, handbrakeVars, mainVars>>

\* const handbrake = await Handbrake.init(video) throws; the rejection
\* leaves transcodeVideos.
WrapperInitThrows ==
  /\ bpc = "transcode"
  /\ bpc' = "aborted"
  /\ UNCHANGED <<files, idx, currentDirectory, q, fileCount, searched, returned, transcoded>>
  /\ UNCHANGED fsVars
  /\ UNCHANGED <<searchVars, handbrakeVars, mainVars>>

\* tryCatch(handbrake.transcode(q)): a strategy succeeds, or all fail; in
\* both cases the loop goes on.
Transcode ==
  /\ bpc = "transcode"
  /\ \E output \in {"complete", "partial", "absent"} :
       /\ transcoded' = Append(transcoded, [file |-> idx, q |-> q,
                                            ok |-> output = "complete",
                                            output |-> output])
       /\ disk' = IF output = "absent" THEN disk
                  ELSE disk \cup {OutputFile(idx, output)}
  /\ idx' = idx + 1
  /\ bpc' = "loop"
  /\ UNCHANGED <<files, currentDirectory, q, fileCount, searched, returned>>
  /\ UNCHANGED <<toContainer, deleted, renamed>>
  /\ UNCHANGED <<searchVars, handbrakeVars, mainVars>>

\* The listing is exhausted: await fileCleanup(absoluteDestinationDir).
Cleanup ==
  /\ bpc = "loop" /\ idx > Len(files)
  /\ bpc' = "done"
  /\ LET unlinked == {f \in disk : Unlinked(f)}
         processedFiles == disk \ unlinked
     IN /\ deleted' = unlinked
        /\ renamed' = {f \in processedFiles : f.marked}
        /\ disk' = {Renamed(f) : f \in processedFiles}
  /\ UNCHANGED <<files, idx, currentDirectory, q, fileCount, searched, returned, transcoded>>
  /\ UNCHANGED toContainer
  /\ UNCHANGED <<searchVars, handbrakeVars, mainVars>>

NextBatch ==
  \/ SkipFile \/ SearchDirectory \/ SearchThrows \/ ReuseQuality
  \/ WrapperInitThrows \/ Transcode \/ Cleanup

SpecBatch == InitBatch /\ [][NextBatch]_vars

(***************************************************************************)
(* Properties of findBestQuality                                           *)
(***************************************************************************)
(* The single-instance lock of src/utils.ts and main() of src/index.ts.    *)
(* Each program instance is an operating-system process; the instances     *)
(* share only LOCK_FILE, and their steps interleave freely.                *)
(***************************************************************************)
MaxInstances == 2

Instances == 1..MaxInstances

\* The three main() functions of src/index.ts, in file order.
MainVersions == {"first", "second", "third"}

\* How main() goes on once acquireLock has returned.
Paths == {"complete", "noArguments", "noMetadata", "noSource", "error"}

\* Whether main() reaches releaseLock, directly or through cleanup, on the
\* given path. The second main() returns at once when the source does
\* not exist; it uses default values when the metadata file is missing.
Releases(v, p) == ~(v = "second" /\ p = "noSource")

InitLock ==
  /\ SearchIdle
  /\ HandbrakeIdle
  /\ BatchIdle
  /\ PipelineIdle
  /\ mainVersion \in MainVersions
  /\ ipc = [i \in Instances |-> "acquire"]
  /\ lockFile = 0
  /\ acquired = {}
  /\ path = [i \in Instances |-> "none"]

\* acquireLock: const exists = existsSync(LOCK_FILE)
AcquireCheck(i) ==
  /\ ipc[i] = "acquire"
  /\ ipc' = [ipc EXCEPT ![i] = IF lockFile = 0 THEN "write" ELSE "wait"]
  /\ UNCHANGED <<mainVersion, lockFile, acquired, path>>
  /\ UNCHANGED <<searchVars, handbrakeVars, batchVars, pipelineVars>>

\* acquireLock: await Bun.write(lockFile, ...); return
AcquireWrite(i) ==
  /\ ipc[i] = "write"
  /\ lockFile' = i
  /\ acquired' = acquired \cup {i}
  /\ ipc' = [ipc EXCEPT ![i] = "main"]
  /\ UNCHANGED <<mainVersion, path>>
  /\ UNCHANGED <<searchVars, handbrakeVars, batchVars, pipelineVars>>

\* acquireLock: Bun.write throws; the catch block sleeps, then the loop
\* goes round.
AcquireWriteFails(i) ==
  /\ ipc[i] = "write"
  /\ ipc' = [ipc EXCEPT ![i] = "wait"]
  /\ UNCHANGED <<mainVersion, lockFile, acquired, path>>
  /\ UNCHANGED <<searchVars, handbrakeVars, batchVars, pipelineVars>>

\* acquireLock: await Bun.sleep(180000) is over.
AcquireRetry(i) ==
  /\ ipc[i] = "wait"
  /\ ipc' = [ipc EXCEPT ![i] = "acquire"]
  /\ UNCHANGED <<mainVersion, lockFile, acquired, path>>
  /\ UNCHANGED <<searchVars, handbrakeVars, batchVars, pipelineVars>>

\* main(): the work after acquireLock, up to releaseLock, cleanup or return.
MainPath(i) ==
  /\ ipc[i] = "main"
  /\ \E p \in Paths :
       /\ path' = [path EXCEPT ![i] = p]
       /\ ipc' = [ipc EXCEPT ![i] = IF Releases(mainVersion, p) THEN "release"
                                     ELSE "ended"]
  /\ UNCHANGED <<mainVersion, lockFile, acquired>>
  /\ UNCHANGED <<searchVars, handbrakeVars, batchVars, pipelineVars>>

\* SIGINT, SIGTERM, uncaughtException or unhandledRejection: the handler
\* calls cleanup, which calls releaseLock and then exits.
Terminate(i) ==
  /\ ipc[i] \in {"acquire", "write", "wait", "main"}
  /\ path' = [path EXCEPT ![i] = "terminated"]
  /\ ipc' = [ipc EXCEPT ![i] = "release"]
  /\ UNCHANGED <<mainVersion, lockFile, acquired>>
  /\ UNCHANGED <<searchVars, handbrakeVars, batchVars, pipelineVars>>

\* releaseLock: const exists = existsSync(LOCK_FILE)
ReleaseCheck(i) ==
  /\ ipc[i] = "release"
  /\ ipc' = [ipc EXCEPT ![i] = IF lockFile # 0 THEN "delete" ELSE "ended"]
  /\ UNCHANGED <<mainVersion, lockFile, acquired, path>>
  /\ UNCHANGED <<searchVars, handbrakeVars, batchVars, pipelineVars>>

\* releaseLock: await lockFile.delete()
ReleaseDelete(i) ==
  /\ ipc[i] = "delete"
  /\ lockFile' = 0
  /\ ipc' = [ipc EXCEPT ![i] = "ended"]
  /\ UNCHANGED <<mainVersion, acquired, path>>
  /\ UNCHANGED <<searchVars, handbrakeVars, batchVars, pipelineVars>>

AcquireLock ==
  \E i \in Instances :
    AcquireCheck(i) \/ AcquireWrite(i) \/ AcquireWriteFails(i)
      \/ AcquireRetry(i)

ReleaseLock == \E i \in Instances : ReleaseCheck(i) \/ ReleaseDelete(i)

Main == \E i \in Instances : MainPath(i) \/ Terminate(i)

NextLock == AcquireLock \/ Main \/ ReleaseLock

SpecLock == InitLock /\ [][NextLock]_vars

(***************************************************************************)
(* The pipeline of main(): exportSubtitles, transcodeVideos with its       *)
(* cleanup pass, transferFiles. exportSubtitles hands every listed file to *)
(* an async callback of files.forEach and does not wait for the callbacks. *)
(***************************************************************************)
MaxMkvFiles == 3

\* Subtitle tracks mkvinfo may report for a file.
MaxTracks == 2

NotStarted == [stage |-> "notStarted", left |-> 0]

Finished == [stage |-> "finished", left |-> 0]

InitPipeline ==
  /\ SearchIdle
  /\ HandbrakeIdle
  /\ BatchIdle
  /\ LockIdle
  /\ step = "exportSubtitles"
  /\ \E n \in 1..MaxMkvFiles : extraction = [f \in 1..n |-> NotStarted]

\* exportSubtitles: files.forEach(async (file) => ...) runs every callback
\* up to its first await, the mkvinfo process, and returns; main() goes on
\* to transcodeVideos (the Bun.sleep(2000) in between is not awaited).
ExportSubtitles ==
  /\ step = "exportSubtitles"
  /\ extraction' = [f \in DOMAIN extraction |-> [stage |-> "mkvinfo", left |-> 0]]
  /\ step' = "transcodeVideos"
  /\ UNCHANGED <<searchVars, handbrakeVars, batchVars, lockVars>>

\* A callback: mkvinfo has listed the subtitle tracks of the file; the
\* first mkvextract process is started, if there is a track to extract.
MkvinfoDone ==
  /\ \E f \in DOMAIN extraction :
       /\ extraction[f].stage = "mkvinfo"
       /\ \E tracks \in 0..MaxTracks :
            extraction' =
              [extraction EXCEPT ![f] =
                 IF tracks = 0 THEN Finished
                 ELSE [stage |-> "mkvextract", left |-> tracks]]
  /\ UNCHANGED step
  /\ UNCHANGED <<searchVars, handbrakeVars, batchVars, lockVars>>

\* A callback: await $`mkvextract tracks ...` of one track is over.
MkvextractDone ==
  /\ \E f \in DOMAIN extraction :
       /\ extraction[f].stage = "mkvextract"
       /\ extraction' =
            [extraction EXCEPT ![f] =
               IF extraction[f].left = 1 THEN Finished
               ELSE [stage |-> "mkvextract", left |-> extraction[f].left - 1]]
  /\ UNCHANGED step
  /\ UNCHANGED <<searchVars, handbrakeVars, batchVars, lockVars>>

\* transcodeVideos: the loop over the files is over, fileCleanup starts.
TranscodeVideos ==
  /\ step = "transcodeVideos"
  /\ step' = "fileCleanup"
  /\ UNCHANGED extraction
  /\ UNCHANGED <<searchVars, handbrakeVars, batchVars, lockVars>>

\* transcodeVideos: fileCleanup has unlinked and renamed; main() goes on
\* to transferFiles.
FileCleanup ==
  /\ step = "fileCleanup"
  /\ step' = "transferFiles"
  /\ UNCHANGED extraction
  /\ UNCHANGED <<searchVars, handbrakeVars, batchVars, lockVars>>

\* transferFiles is over.
TransferFiles ==
  /\ step = "transferFiles"
  /\ step' = "done"
  /\ UNCHANGED extraction
  /\ UNCHANGED <<searchVars, handbrakeVars, batchVars, lockVars>>

NextPipeline ==
  \/ ExportSubtitles \/ MkvinfoDone \/ MkvextractDone
  \/ TranscodeVideos \/ FileCleanup \/ TransferFiles

SpecPipeline == InitPipeline /\ [][NextPipeline]_vars

(***************************************************************************)
IsPart012 == variant = "part_012"

Last(h) == h[Len(h)]

\* The step is one loop iteration (one call of sample()).
Iterated == Len(hist') = Len(hist) + 1

Accepted(h) == {i \in 1..Len(h) : h[i].kind \in LowersHigh}

\* C1: the [7,40] search terminates whatever the sampler does, and calls
\* sample() at most 6 times.
C1_SearchBounded ==
  IsPart012 => /\ <>(spc \in {"done", "raised"})
               /\ [](Len(hist) <= 6)

C1_Witness ==
  /\ IsPart012 /\ spc = "done" /\ Len(hist) = 6
  /\ \E i \in 1..6 : hist[i].kind = "error"

\* C2: every quality handed to sample() lies in the initial window, and the
\* returned quality lies in the window or is DEFAULT_Q.
C2_InsideWindow ==
  /\ \A i \in 1..Len(hist) :
       InitialLow(variant) <= hist[i].mid /\ hist[i].mid <= InitialHigh(variant)
  /\ spc = "done" =>
       \/ best = DEFAULT_Q
       \/ InitialLow(variant) <= best /\ best <= InitialHigh(variant)

C2_Witness ==
  /\ variant = "part_011" /\ spc = "done" /\ best # DEFAULT_Q
  /\ low > high /\ Len(hist) >= 3

\* C3: a returned quality that an iteration recorded is the mid of an
\* iteration classified feasible or below-band whose avgBitrate is the
\* largest among all iterations so classified.
C3_BestCandidate ==
  (IsPart012 /\ spc = "done" /\ bestBitrate > 0) =>
    \E i \in Accepted(hist) :
      /\ hist[i].mid = best
      /\ \A j \in Accepted(hist) : hist[i].avg >= hist[j].avg

C3_Witness ==
  /\ IsPart012 /\ spc = "done" /\ bestBitrate > 0
  /\ \E i, j \in Accepted(hist) :
       i < j /\ hist[i].avg > hist[j].avg /\ hist[i].mid = best

\* C4: an iteration classified too large / too high / above band leaves low
\* strictly above its mid and high untouched; one classified feasible or
\* below band leaves high strictly below its mid and low untouched.
C4_MonotonicTightening ==
  [][(IsPart012 /\ Iterated /\ Last(hist').kind # "error") =>
       /\ Last(hist').kind \in RaisesLow => (low' > mid /\ high' = high)
       /\ Last(hist').kind \in LowersHigh => (high' < mid /\ low' = low)]_vars

C4_Witness ==
  /\ IsPart012 /\ Len(hist) >= 2
  /\ hist[Len(hist) - 1].kind \in LowersHigh
  /\ Last(hist).kind \in RaisesLow
  /\ low > Last(hist).mid /\ high < hist[Len(hist) - 1].mid

\* C5: a SampleResult is classified by the first matching rule of
\* (1) size > 95% of source, (2) bitrate > 95% of source, (3) bitrate > band
\* max, (4) bitrate < band min, (5) feasible; rule (1) raises low whatever
\* the bitrate and never touches best.
C5_Rule(r) ==
  IF 100 * r.est > 95 * metadata.size THEN 1
  ELSE IF 100 * r.avg > 95 * metadata.bitrate THEN 2
  ELSE IF r.avg > getBitrateRange(category)[2] THEN 3
  ELSE IF r.avg < getBitrateRange(category)[1] THEN 4
  ELSE 5

C5_EvaluationOrder ==
  [][(IsPart012 /\ Iterated /\ Last(hist').kind # "error") =>
       LET r == Last(hist')
           rule == C5_Rule(r)
       IN /\ rule \in {1, 2, 3} =>
               /\ low' = r.mid + 10 /\ high' = high
               /\ best' = best /\ bestBitrate' = bestBitrate
          /\ rule \in {4, 5} => (high' = r.mid - 10 /\ low' = low)
          /\ r.kind = <<"tooLarge", "tooHighBitrate", "aboveBand",
                        "belowBand", "feasible">>[rule]]_vars

C5_Witness ==
  /\ IsPart012 /\ Len(hist) >= 2
  /\ hist[1].kind = "belowBand" /\ best = hist[1].mid
  /\ 100 * hist[2].est > 95 * metadata.size
  /\ hist[2].avg >= getBitrateRange(category)[1]
  /\ hist[2].avg <= getBitrateRange(category)[2]
  /\ hist[2].avg > bestBitrate
  /\ low = hist[2].mid + 10

\* C6: an iteration whose sample() raises leaves low, high, mid, best and
\* bestBitrate as they were, uses up one attempt, and the next iteration
\* samples the same mid.
C6_SamplingFailure ==
  /\ [][(IsPart012 /\ Iterated /\ Last(hist').kind = "error") =>
          /\ low' = low /\ high' = high /\ mid' = mid
          /\ best' = best /\ bestBitrate' = bestBitrate
          /\ attempts' = attempts + 1]_vars
  /\ [](IsPart012 =>
          \A i \in 1..(Len(hist) - 1) :
            hist[i].kind = "error" => hist[i + 1].mid = hist[i].mid)

C6_Witness ==
  /\ IsPart012 /\ Len(hist) >= 3
  /\ hist[1].kind \in RaisesLow /\ hist[2].kind = "error"
  /\ hist[3].kind # "error" /\ hist[3].mid = hist[2].mid
  /\ attempts = Len(hist)

(***************************************************************************)
(* Properties of Handbrake                                                 *)
(***************************************************************************)
\* C7: a sample without a valid measurement (every strategy failed and no
\* output file exists, or the probed bitrate is not > 0) is left out and
\* the pass goes on; sample() raises only when no sample at all was valid.
C7_InvalidSampleExcluded ==
  (op = "sample" /\ hpc = "raised" /\ error # "Invalid sample options") =>
    (sample = samples /\ successfulSamples = 0)

\* C8: runCommand tries the enabled strategies in declared order, starts
\* the next one only after the previous one failed, none after an exit
\* code 0, and never a disabled one.
C8_StrategyOrder ==
  LET order == SelectSeq(<<1, 2, 3>>, StrategyEnabled)
  IN /\ Len(runLog) <= Len(order)
     /\ \A i \in 1..Len(runLog) :
          /\ runLog[i].strat = order[i]
          /\ i < Len(runLog) => runLog[i].result \in {"failed", "spawnError"}
     /\ rpc = "running" => Last(runLog).result = "running"
     /\ (rpc = "returned" /\ (runLog = <<>> \/ Last(runLog).result # "exit0"))
          => Len(runLog) = Len(order)

C8_Witness ==
  /\ ~hwEnabled /\ rpc = "returned" /\ Len(runLog) = 2
  /\ runLog[1].strat = 2 /\ runLog[1].result = "failed"
  /\ runLog[2].strat = 3 /\ runLog[2].result = "exit0"

\* C13: for every source duration > 0 and sample count > 0 the start
\* offsets of the time table lie in [1, duration) and the windows
\* [start, start + effective sample length) of distinct samples are disjoint.
C13_SampleWindows ==
  (op = "sample" /\ timeTable # <<>> /\ length > 0 /\ samples > 0) =>
    /\ \A i \in 1..Len(timeTable) :
         1 <= timeTable[i].start /\ timeTable[i].start < length
    /\ \A i, j \in 1..Len(timeTable) :
         i < j =>
           \/ timeTable[i].start + timeTable[i].duration <= timeTable[j].start
           \/ timeTable[j].start + timeTable[j].duration <= timeTable[i].start

\* C14: sample() raises "Invalid sample options" before any encoder run or
\* scratch file when quality <= 0, quality > 51, samples <= 0 or
\* sampleLength <= 0, and never raises that error for other arguments.
C14_ValidationFirst ==
  (op = "sample" /\ hpc # "start") =>
    IF quality <= 0 \/ quality > 510 \/ samples <= 0 \/ sampleLength <= 0
    THEN /\ hpc = "raised" /\ error = "Invalid sample options"
         /\ runLog = <<>> /\ rpc = "idle" /\ sample = 0
         /\ timeTable = <<>> /\ written = {}
    ELSE error # "Invalid sample options"

C14_Witness ==
  /\ op = "sample" /\ hpc = "raised" /\ error = "Invalid sample options"
  /\ quality = 511 /\ samples = 2 /\ sampleLength = 7
  /\ runLog = <<>> /\ written = {}

C20_OutcomeReported ==
  rpc = "returned" =>
    (runResult = ReturnOnSuccess <=>
       (runLog # <<>> /\ Last(runLog).result = "exit0"))

(***************************************************************************)
(* Properties of transcodeVideos                                           *)
(***************************************************************************)
\* The loop has come to listing position i and decided about its search.
Reached(i) == i < idx \/ (i = idx /\ bpc \in {"transcode", "aborted"})

\* Position i is eligible and starts a run of consecutive eligible files
\* of one directory.
RunHead(i) ==
  /\ Eligible(i)
  /\ LET before == {j \in 1..(i - 1) : Eligible(j)}
     IN before = {} \/
          files[CHOOSE j \in before : \A k \in before : k <= j].dir # files[i].dir

Searches(i) == Cardinality({k \in 1..Len(searched) : searched[k] = i})

\* C9: of consecutive eligible files sharing a parent directory, the first
\* gets the one findBestQuality call of the run, the following ones none.
C9_DirectoryReuse ==
  \A i \in 1..Len(files) :
    Searches(i) = IF Reached(i) /\ RunHead(i) THEN 1 ELSE 0

C9_Witness ==
  /\ bpc = "done" /\ Len(files) = 3
  /\ Eligible(1) /\ files[2].kind = "skipCodec" /\ Eligible(3)
  /\ files[1].dir = files[3].dir
  /\ searched = <<1>> /\ Len(transcoded) = 2

\* C10: a failure while searching quality for, or transcoding, one file
\* (a failing encoder-wrapper initialisation included) never aborts the
\* batch: later files are still attempted and the cleanup pass still runs.
C10_BatchNeverAborts ==
  bpc \in {"done", "aborted"} =>
    /\ bpc = "done"
    /\ \A i \in 1..Len(files) :
         Eligible(i) => \E k \in 1..Len(transcoded) : transcoded[k].file = i

(***************************************************************************)
(* More properties of findBestQuality                                      *)
(***************************************************************************)
\* C16: when no iteration is classified feasible or below-band (only
\* rejections and sampling failures, or the source probe fails), the search
\* returns DEFAULT_Q as a normal result and raises nothing.
C16_DefaultOnExhaustion ==
  (IsPart012 /\ spc \in {"done", "raised"} /\ Accepted(hist) = {}) =>
    (spc = "done" /\ best = DEFAULT_Q)

\* C17: a feasible candidate (size and bitrate within 95% of the source,
\* bitrate inside the band) becomes best exactly when its avgBitrate is
\* strictly above bestBitrate, and high drops below mid either way.
C17_Feasible(r) ==
  /\ 100 * r.est <= 95 * metadata.size
  /\ 100 * r.avg <= 95 * metadata.bitrate
  /\ getBitrateRange(category)[1] <= r.avg
  /\ r.avg <= getBitrateRange(category)[2]

C17_FeasibleRecorded ==
  [][(IsPart012 /\ Iterated /\ Last(hist').kind # "error"
        /\ C17_Feasible(Last(hist'))) =>
       /\ high' = mid - 10 /\ high' < mid
       /\ IF Last(hist').avg > bestBitrate
          THEN best' = mid /\ bestBitrate' = Last(hist').avg
          ELSE best' = best /\ bestBitrate' = bestBitrate]_vars

C17_Witness ==
  /\ IsPart012 /\ category = "shows"
  /\ metadata = [size |-> 1000, bitrate |-> 667]
  /\ Len(hist) = 2
  /\ hist[1].kind = "feasible" /\ hist[1].avg = 350 /\ hist[1].est = 525
  /\ hist[2].kind = "feasible" /\ hist[2].avg = 350
  /\ best = hist[1].mid /\ bestBitrate = 350
  /\ high = hist[2].mid - 10

\* C19: no sample() call is made once low >= high or high - low < 0.3, even
\* with attempts left; the search stops at the first of attempts = 6, low
\* meeting or crossing high, and the gap falling under 0.3.
C19_StopsWhenNarrow ==
  /\ [][(IsPart012 /\ Iterated) =>
          (low < high /\ high - low >= 3 /\ attempts < 6)]_vars
  /\ []((IsPart012 /\ spc = "done") =>
          (attempts = 6 \/ low >= high \/ high - low < 3))

C19_Witness ==
  /\ IsPart012 /\ spc = "done" /\ attempts = 4
  /\ low < high /\ high - low < 3

\* C18: in every findBestQuality variant a below-band candidate is recorded
\* as best when its bitrate is the highest recorded so far, so a search
\* whose only acceptable candidates were below-band returns one of them.
C18_BelowBandRecorded ==
  (spc = "done" /\ Accepted(hist) # {}
     /\ \A i \in Accepted(hist) : hist[i].kind = "belowBand") =>
    \E i \in Accepted(hist) : best = hist[i].mid /\ bestBitrate = hist[i].avg

\* C30: low never decreases and high never increases, both stay inside the
\* initial window, and every sample() call gets a quality with
\* low <= mid <= high and 0 < mid <= 51, which passes the sampler's check.
C30_Declared == spc \in {"loop", "raised"} \/ (spc = "done" /\ hist # <<>>)

C30_BoundsMonotone ==
  /\ [][C30_Declared => (low' >= low /\ high' <= high)]_vars
  /\ [](C30_Declared =>
          (InitialLow(variant) <= low /\ high <= InitialHigh(variant)))
  /\ [][Iterated =>
          /\ Last(hist').mid = mid
          /\ low <= mid /\ mid <= high
          /\ 0 < mid /\ mid <= 510]_vars

C30_Witness ==
  /\ IsPart012 /\ spc = "loop" /\ Len(hist) = 3
  /\ hist[1].kind = "aboveBand" /\ hist[2].kind = "error"
  /\ hist[3].kind = "feasible"
  /\ low = hist[1].mid + 10 /\ high = hist[3].mid - 10
  /\ low <= mid /\ mid <= high

(***************************************************************************)
(* More properties of transcodeVideos                                      *)
(***************************************************************************)
\* C11: when every strategy fails for the full-length transcode of a file
\* (output absent or partly written), the rename pass renames nothing
\* derived from it, nothing of it is in the directory after the cleanup,
\* and the loop goes on to the next file.
C11_FailedTranscodeNotDelivered ==
  \A k \in 1..Len(transcoded) :
    transcoded[k].output # "complete" =>
      /\ idx > transcoded[k].file
      /\ bpc = "done" =>
           /\ \A f \in renamed : f.file # transcoded[k].file
           /\ \A f \in disk : f.file # transcoded[k].file

\* C12: a listed file with a skip-listed codec, a base name ending with the
\* processed marker or an extension outside the allow-list gets no
\* findBestQuality call and no transcode, and currentDirectory and q stay
\* as they were when the loop passes it.
C12_Skipped(i) ==
  \/ files[i].kind = "skipCodec"
  \/ files[i].kind = "processed"
  \/ files[i].kind \in {"other", "subtitle", "markedSubtitle"}

C12_SkippedUntouched ==
  /\ [](\A i \in 1..Len(files) :
          C12_Skipped(i) =>
            /\ Searches(i) = 0
            /\ \A k \in 1..Len(transcoded) : transcoded[k].file # i)
  /\ [][(idx <= Len(files) /\ C12_Skipped(idx)) =>
          /\ currentDirectory' = currentDirectory /\ q' = q
          /\ searched' = searched /\ transcoded' = transcoded
          /\ disk' = disk]_vars

C12_Witness ==
  /\ bpc = "done" /\ Len(files) = 3
  /\ files[1].kind = "video" /\ files[1].dir = "/a"
  /\ files[2].kind = "skipCodec" /\ files[2].dir = "/b"
  /\ files[3].kind = "processed" /\ files[3].dir = "/b"
  /\ searched = <<1>> /\ Len(transcoded) = 1
  /\ currentDirectory = "/a" /\ q = 235

\* C22: whatever the order of the listing, also with files of different
\* directories interleaved, findBestQuality is called at most once per
\* distinct parent directory in one run.
C22_OncePerDirectory ==
  \A d \in Dirs :
    Cardinality({k \in 1..Len(searched) : files[searched[k]].dir = d}) <= 1

\* The first file of the run of consecutive eligible same-directory files
\* that the eligible position i belongs to.
RunHeadOf(i) == CHOOSE h \in 1..i :
  RunHead(h) /\ \A j \in (h + 1)..i : ~RunHead(j)

\* C23: each transcode uses the quality returned by the one search made on
\* the first eligible file of its run of same-directory files; q is not
\* modified between the files of the run, nor by a transcode, failed or not.
C23_QualityReused ==
  /\ [](\A k \in 1..Len(transcoded) :
          LET h == RunHeadOf(transcoded[k].file)
              rs == {r \in 1..Len(returned) : returned[r].file = h}
          IN /\ Cardinality(rs) = 1
             /\ \A r \in rs : transcoded[k].q = returned[r].q)
  /\ [][Len(transcoded') = Len(transcoded) + 1 => q' = q]_vars
  /\ [][(bpc = "loop" /\ idx <= Len(files) /\ Eligible(idx)
           /\ ~RunHead(idx)) => q' = q]_vars

C23_Witness ==
  /\ bpc = "done" /\ Len(files) = 2
  /\ files[1].dir = "/a" /\ files[2].dir = "/a"
  /\ returned = <<[file |-> 1, q |-> 148]>>
  /\ Len(transcoded) = 2
  /\ transcoded[1].output = "partial" /\ transcoded[1].q = 148
  /\ transcoded[2].file = 2 /\ transcoded[2].q = 148

\* C27: in both Handbrake.sample variants the duration handed to the
\* encoder for every sample is min(sampleLength, floor(duration / samples)),
\* not the unadjusted sampleLength.
C27_EffectiveLengthUsed ==
  op = "sample" =>
    \A i \in 1..Len(timeTable) :
      timeTable[i].duration =
        IF sampleLength < length \div samples THEN sampleLength
        ELSE length \div samples

\* C28: for every duration > 0 and valid options, every encoder run made by
\* sample() carries a start/stop time range, also when duration < samples
\* so that floor(duration / samples) is 0.
C28_SamplesAreRanged ==
  (op = "sample" /\ hpc = "run" /\ length > 0) =>
    HasTimeRange(timeTable[sample].start, timeTable[sample].duration)

(***************************************************************************)
(* More properties of Handbrake                                            *)
(***************************************************************************)
\* Encoder processes spawned by the current runCommand call that have not
\* exited.
Alive == {i \in 1..Len(runLog) : runLog[i].result = "running"}

\* C21: at most one encoder process is alive at any time; a new one is
\* spawned only after the previous one has exited, across strategies,
\* samples and calls.
C21_OneEncoderAtATime ==
  /\ Cardinality(Alive) <= 1
  /\ rpc # "running" => Alive = {}

C21_Witness ==
  /\ op = "sample" /\ sample = 2 /\ rpc = "running" /\ Len(runLog) = 2
  /\ runLog[1].result = "failed" /\ Alive = {2}

\* C24: sample() raises exactly when no sample gave a bitrate > 0;
\* otherwise it returns the sum of the valid bitrates divided by their
\* number, and estimatedSize = avgBitrate * duration / 8.
C24_AverageOverValid ==
  op = "sample" =>
    /\ hpc = "raised" => successfulSamples = 0
    /\ hpc = "done" =>
         /\ successfulSamples > 0
         /\ sampleAvg =
              (2 * totalBitrate + successfulSamples) \div (2 * successfulSamples)
         /\ EstimatedSize = (2 * sampleAvg * length + 8) \div 16

(***************************************************************************)
(* Properties of fileCleanup                                               *)
(***************************************************************************)
\* C25: after the cleanup and rename passes every remaining file has an
\* extension of the keep-list, every remaining .mp4 carried the processed
\* marker before the rename pass, and no remaining name carries the marker.
C25_CleanDirectory ==
  bpc = "done" =>
    /\ \A f \in disk : f.extension \in KEEP_FILES_WITH_EXTENSION
    /\ \A f \in disk :
         f.extension = ".mp4" => [f EXCEPT !.marked = TRUE] \in renamed
    /\ \A f \in disk : ~f.marked

(***************************************************************************)
(* Properties of findBestQuality of src/sample-videos.ts                   *)
(***************************************************************************)
\* C26: in src/sample-videos.ts the quality passed to sample() in every
\* iteration is the midpoint of the current [low, high] rounded to 0.1.
C26_MidRecomputed ==
  [][(variant = "sample-videos.ts" /\ Iterated) =>
       Last(hist').mid = (low + high + 1) \div 2]_vars

(***************************************************************************)
(* Properties of findOptimalQuality of src/transcode-videos.ts             *)
(***************************************************************************)
\* C29: every quality the encoder is run with and the quality returned lie
\* in [3, 40] or equal DEFAULT_Q, whatever the probe outcomes, also after
\* low has crossed high while the loop goes on because mid # lastMid.
C29_OptimalInsideWindow ==
  /\ \A i \in 1..Len(hist) :
       (30 <= hist[i].mid /\ hist[i].mid <= 400) \/ hist[i].mid = DEFAULT_Q
  /\ spc = "done" =>
       (30 <= OptimalResult /\ OptimalResult <= 400) \/ OptimalResult = DEFAULT_Q

(***************************************************************************)
(* Backoff between the strategies of runCommand                            *)
(***************************************************************************)
\* The attempt recorded last by the current runCommand call has failed.
C31_LastFailed(log) ==
  log # <<>> /\ Last(log).result \in {"failed", "spawnError"}

\* C31: in runCommand a failed attempt (non-zero exit or spawn error) is
\* followed by the backoff sleep, and the process of the next strategy is
\* spawned only after that sleep has completed: the step that records a
\* failure suspends the call in the sleep, the sleep ends without spawning
\* anything, and a later attempt starts only from the resumed loop.
C31_BackoffBeforeNextStrategy ==
  [][/\ (runLog' # runLog /\ C31_LastFailed(runLog')) => rpc' = "sleep"
     /\ rpc = "sleep" => (runLog' = runLog /\ rpc' = "next" /\ strat' = strat + 1)
     /\ (Len(runLog') > Len(runLog) /\ runLog # <<>>) =>
          (rpc = "next" /\ C31_LastFailed(runLog))]_vars

C31_Witness ==
  /\ hpc = "run" /\ rpc = "running" /\ Len(runLog) = 3
  /\ runLog[1].result = "failed" /\ runLog[2].result = "spawnError"
  /\ runLog[3].strat = 3

(***************************************************************************)
(* Properties of the encoder pair                                          *)
(***************************************************************************)
\* Bit depth an encoder name stands for.
C32_BitDepth(encoder) ==
  IF encoder \in {"vce_h265_10bit", "x265_10bit"} THEN 10 ELSE 8

C32_Hardware == {"vce_h265", "vce_h265_10bit"}

C32_Software == {"x265", "x265_10bit"}

\* C32: the encoder pair of a Handbrake object is one hardware and one
\* software encoder of the same bit depth, 8 bit exactly when the source's
\* color profile is yuv420p or yuv444p and 10 bit otherwise, and every
\* attempt of every runCommand call runs with that pair: the hardware
\* encoder for the first two strategies, the software encoder for the third.
C32_EncoderPairConsistent ==
  LET depth == IF colorProfile \in {"yuv420p", "yuv444p"} THEN 8 ELSE 10
  IN /\ hardwareEncoder \in C32_Hardware
     /\ softwareEncoder \in C32_Software
     /\ C32_BitDepth(hardwareEncoder) = depth
     /\ C32_BitDepth(softwareEncoder) = depth
     /\ \A i \in 1..Len(runLog) :
          /\ C32_BitDepth(runLog[i].encoder) = depth
          /\ runLog[i].encoder =
               IF runLog[i].strat = 3 THEN softwareEncoder ELSE hardwareEncoder

C32_Witness ==
  /\ colorProfile = "yuv420p10le" /\ op = "sample" /\ sample = 2
  /\ rpc = "returned" /\ Len(runLog) = 3
  /\ runLog[1].encoder = "vce_h265_10bit"
  /\ runLog[2].encoder = "vce_h265_10bit"
  /\ runLog[3].encoder = "x265_10bit" /\ runLog[3].result = "exit0"

(***************************************************************************)
(* Skipped files and the cleanup                                           *)
(***************************************************************************)
\* C33: a file transcodeVideos skipped because its codec is in the
\* skip-list is still in the directory, as it was, after the cleanup and
\* rename passes.
C33_SkippedCodecSurvives ==
  bpc = "done" =>
    \A i \in 1..Len(files) :
      (/\ Extension(files[i].kind) \in ALLOW_TRANSCODE
       /\ Probed(files[i].kind)
       /\ ToLowerCase(Codec(files[i].kind)) \in SKIP_TRANSCODE_CODECS)
        => SourceFile(i) \in disk

(***************************************************************************)
(* Properties of the lock                                                  *)
(***************************************************************************)
\* C34: at most one instance at a time is between the return of its
\* acquireLock call and its own releaseLock.
C34_MutualExclusion ==
  Cardinality({i \in Instances : ipc[i] = "main"}) <= 1

\* C35: an instance deletes the lock file only if it is the instance that
\* created it; an instance terminated while still inside acquireLock
\* removes no lock written by another instance.
C35_DeletesOwnLockOnly ==
  [][\A i \in Instances :
       (ipc[i] = "delete" /\ ipc'[i] = "ended" /\ lockFile # 0) =>
         (lockFile = i /\ i \in acquired)]_vars

\* C36: whenever main() of an instance has finished after its acquireLock
\* succeeded, on any path, the lock it wrote is no longer there.
C36_FinishedMainReleased ==
  \A i \in Instances :
    (i \in acquired /\ ipc[i] = "ended") => lockFile # i

(***************************************************************************)
(* Properties of the pipeline                                              *)
(***************************************************************************)
\* C37: while transcodeVideos encodes and while its cleanup pass runs,
\* subtitle extraction has finished for every .mkv file: no mkvinfo or
\* mkvextract process started by exportSubtitles is still running.
C37_ExtractionFinishedBeforeTranscode ==
  step \in {"transcodeVideos", "fileCleanup"} =>
    \A f \in DOMAIN extraction : extraction[f].stage = "finished"

\* C38: in findOptimalQuality a candidate at which all three encoder
\* strategies fail leaves a best quality recorded by an earlier iteration
\* in place, and the function returns that recorded best.
C38_FailedCandidateKeepsBest ==
  (/\ variant = "transcode-videos.ts" /\ spc = "done"
   /\ \E i \in 1..Len(hist) : hist[i].kind = "encodeFailed"
   /\ bestBitrate > 0 /\ best # 0)
    => OptimalResult = best

=============================================================================
